---- MODULE Spec2Model ----
(***************************************************************************)
(* Lifecycle of the JNI boundary stubs of MemoriaOs.                       *)
(*                                                                         *)
(*   NL  = app/src/main/cpp/native-lib.cpp   (free functions, g_vm and     *)
(*         g_context statics, JNI_OnLoad / JNI_OnUnload)                   *)
(*   CS  = app/src/main/cpp/ai/cascade/src/CascadeAIService.cpp            *)
(*         (Pimpl class held by the g_cascadeService unique_ptr)           *)
(*                                                                         *)
(* Pointers are naturals: 0 is nullptr.  A JNI global reference is the     *)
(* index of its entry in refs; an Impl instance is the index of its entry  *)
(* in impls.  Every outcome the JNI environment may produce (GetJavaVM,    *)
(* GetEnv, GetObjectClass, NewGlobalRef, GetStringUTFChars failing) is an  *)
(* input of the action that makes the call.                                *)
(***************************************************************************)
EXTENDS Naturals, Sequences, FiniteSets

----------------------------------------------------------------------------
(* Bounds of the model *)

MaxRefs == 4
MaxImpls == 2
MaxContexts == 2
MaxRequests == 1
MaxThreads == 3
MaxCallers == 2

NULL == 0
VM == 1

Contexts == 0..MaxContexts
Requests == 0..MaxRequests
Threads == 1..MaxThreads

VARIABLES
    lib,                \* which of the two libraries is the one loaded
    nl_g_vm,            \* native-lib.cpp: static JavaVM *g_vm
    nl_g_context,       \* native-lib.cpp: static jobject g_context
    cs_g_vm,            \* CascadeAIService.cpp: JavaVM *g_vm
    g_cascadeService,   \* CascadeAIService.cpp: the unique_ptr (0 or an Impl)
    impls,              \* heap of CascadeAIService::Impl objects
    refs,               \* every JNI global reference ever created
    deletedNull,        \* DeleteGlobalRef was called on a null reference
    last,               \* the call that returned last, with what it observed
    nl_hist,            \* history: NL lifecycle calls since the last shutdown
    cs_hist,            \* history: result of the CS lifecycle calls
    od_hist,            \* history: OD lifecycle ("never", "initialized", "shutdown")
    pc,                 \* per thread: statement about to be executed
    loc                 \* per thread: locals of the running native method

vars == <<lib, nl_g_vm, nl_g_context, cs_g_vm, g_cascadeService, impls, refs,
          deletedNull, last, nl_hist, cs_hist, od_hist, pc, loc>>

nlVars == <<nl_g_vm, nl_g_context, nl_hist>>
csVars == <<cs_g_vm, g_cascadeService, impls, cs_hist>>
thVars == <<lib, od_hist, pc, loc>>

----------------------------------------------------------------------------
(* JNI global reference table *)

NewRef(site) == [by |-> site, dels |-> 0]

\* JNIEnv::NewGlobalRef on a non-null object succeeding: the table after the
\* call, site naming the statement that made it
NewGlobalRef(table, site) == Append(table, NewRef(site))

\* JNIEnv::DeleteGlobalRef on a non-null reference
DeleteGlobalRef(table, r) == [table EXCEPT ![r].dels = @ + 1]

Live(table) == {r \in 1..Len(table) : table[r].dels = 0}
LiveBy(table, sites) == {r \in Live(table) : table[r].by \in sites}

----------------------------------------------------------------------------
(* Responses: the literals handed to NewStringUTF *)

NL_RespNull == "{'error':'Invalid request'}"
NL_RespNoChars == "{'error':'Failed to process request'}"
NL_RespSuccess == "{'content':'Request processed by native code', 'confidence':0.9}"
CS_RespNotInit == "{\"error\":\"Service not initialized\"}"
CS_RespInvalid == "{\"error\":\"Invalid request\"}"
CS_RespSuccess == "{\n            \"status\": \"success\",\n            \"agent\": \"Cascade\",\n            \"version\": \"1.0.0\",\n            \"response\": \"Request processed by Cascade AI agent\"\n        }"
NoResp == ""

\* The field names of the JSON-like object a response literal denotes
Fields(resp) ==
    CASE resp = NL_RespNull -> {"error"}
      [] resp = NL_RespNoChars -> {"error"}
      [] resp = NL_RespSuccess -> {"content", "confidence"}
      [] resp = CS_RespNotInit -> {"error"}
      [] resp = CS_RespInvalid -> {"error"}
      [] resp = CS_RespSuccess -> {"status", "agent", "version", "response"}
      [] OTHER -> {}

ErrorShaped(resp) == "error" \in Fields(resp)
SuccessShaped(resp) == Fields(resp) # {} /\ "error" \notin Fields(resp)

----------------------------------------------------------------------------
(* Record of the call that returned last *)

Call(impl, op, arg, ret, path, resp, held, vmBefore, utfGot, utfRel, nullChars) ==
    [impl |-> impl, op |-> op, arg |-> arg, ret |-> ret, path |-> path,
     resp |-> resp, held |-> held, vmBefore |-> vmBefore,
     utfGot |-> utfGot, utfRel |-> utfRel, nullChars |-> nullChars]

\* Locals of a native method running on a thread
NoLoc == [h |-> "none", arg |-> NULL, seen |-> NULL, tmp |-> NULL,
          ret |-> "none", ub |-> FALSE]

\* Libraries: NL and CS export the same JNI symbols, so a process loads one
\* of them; OD is oracle_integration_jni.cpp
Libs == {"NL", "CS", "OD"}

\* nl_hist before any nativeInitialize and after nativeShutdown.  init and ctx
\* describe the latest lifecycle call; inited and ictx tell whether a
\* nativeInitialize has completed since the last release, and with which
\* context the latest one did
NLNoHist == [init |-> "none", ctx |-> NULL, inited |-> FALSE, ictx |-> NULL]

NoCall == Call("none", "none", 0, "void", "none", NoResp, 0, 0, 0, 0, FALSE)

----------------------------------------------------------------------------
(* native-lib.cpp *)

\* nativeInitialize(env, clazz, context)
NL_nativeInitialize(context) ==
    \E vmOk \in BOOLEAN, refOk \in BOOLEAN, vmOut \in {nl_g_vm, NULL} :
       /\ lib = "NL"
       /\ UNCHANGED <<csVars, thVars, deletedNull>>
       /\ IF ~vmOk
          THEN \* GetJavaVM failed: what it stored in g_vm is unspecified
               /\ refOk
               /\ nl_g_vm' = vmOut
               /\ UNCHANGED <<nl_g_context, refs>>
               /\ nl_hist' = [nl_hist EXCEPT !.init = "vmfail", !.ctx = context]
               /\ last' = Call("NL", "nativeInitialize", context, "void", "vmfail",
                               NoResp, nl_g_context, nl_g_vm, 0, 0, FALSE)
          ELSE /\ vmOut = nl_g_vm
               /\ nl_g_vm' = VM
               /\ IF context = NULL
                  THEN /\ refOk
                       /\ UNCHANGED <<nl_g_context, refs>>
                       /\ nl_hist' = [init |-> "complete", ctx |-> context,
                                       inited |-> TRUE, ictx |-> context]
                       /\ last' = Call("NL", "nativeInitialize", context, "void",
                                       "complete", NoResp, nl_g_context, nl_g_vm,
                                       0, 0, FALSE)
                  ELSE IF refOk
                       THEN /\ Len(refs) < MaxRefs
                            /\ refs' = NewGlobalRef(refs, "NL")
                            /\ nl_g_context' = Len(refs) + 1
                            /\ nl_hist' = [init |-> "complete", ctx |-> context,
                                       inited |-> TRUE, ictx |-> context]
                            /\ last' = Call("NL", "nativeInitialize", context, "void",
                                            "complete", NoResp, nl_g_context,
                                            nl_g_vm, 0, 0, FALSE)
                       ELSE \* NewGlobalRef returned null and was stored
                            /\ nl_g_context' = NULL
                            /\ UNCHANGED refs
                            /\ nl_hist' = [nl_hist EXCEPT !.init = "reffail", !.ctx = context]
                            /\ last' = Call("NL", "nativeInitialize", context, "void",
                                            "reffail", NoResp, nl_g_context,
                                            nl_g_vm, 0, 0, FALSE)

NL_nativeProcessRequest_Leaks(request) ==
    \E charsOk \in BOOLEAN :
       /\ lib = "NL"
       /\ UNCHANGED <<nlVars, csVars, thVars, refs, deletedNull>>
       /\ IF request = NULL
          THEN /\ charsOk
               /\ last' = Call("NL", "nativeProcessRequest", request, "jstring",
                               "null", NL_RespNull, nl_g_context, nl_g_vm,
                               0, 0, FALSE)
          ELSE IF ~charsOk
               THEN last' = Call("NL", "nativeProcessRequest", request, "jstring",
                                 "nochars", NL_RespNoChars, nl_g_context, nl_g_vm,
                                 0, 0, FALSE)
               ELSE last' = Call("NL", "nativeProcessRequest", request, "jstring",
                                 "processed", NL_RespSuccess, nl_g_context, nl_g_vm,
                                 1, 0, FALSE)

\* nativeProcessRequest(env, clazz, request)
NL_nativeProcessRequest(request) ==
    \E charsOk \in BOOLEAN :
       /\ lib = "NL"
       /\ UNCHANGED <<nlVars, csVars, thVars, refs, deletedNull>>
       /\ IF request = NULL
          THEN /\ charsOk
               /\ last' = Call("NL", "nativeProcessRequest", request, "jstring",
                               "null", NL_RespNull, nl_g_context, nl_g_vm,
                               0, 0, FALSE)
          ELSE IF ~charsOk
               THEN last' = Call("NL", "nativeProcessRequest", request, "jstring",
                                 "nochars", NL_RespNoChars, nl_g_context, nl_g_vm,
                                 0, 0, FALSE)
               ELSE last' = Call("NL", "nativeProcessRequest", request, "jstring",
                                 "processed", NL_RespSuccess, nl_g_context, nl_g_vm,
                                 1, 1, FALSE)

NL_nativeShutdown_KeepsPointer ==
    /\ lib = "NL"
    /\ UNCHANGED <<csVars, thVars, nl_g_vm, deletedNull>>
    /\ nl_hist' = NLNoHist
    /\ IF nl_g_context # NULL
       THEN /\ refs' = DeleteGlobalRef(refs, nl_g_context)
            /\ UNCHANGED nl_g_context
            /\ last' = Call("NL", "nativeShutdown", 0, "void", "released", NoResp,
                            nl_g_context, nl_g_vm, 0, 0, FALSE)
       ELSE /\ UNCHANGED <<refs, nl_g_context>>
            /\ last' = Call("NL", "nativeShutdown", 0, "void", "noop", NoResp,
                            nl_g_context, nl_g_vm, 0, 0, FALSE)

\* nativeShutdown(env, clazz)
NL_nativeShutdown ==
    /\ lib = "NL"
    /\ UNCHANGED <<csVars, thVars, nl_g_vm, deletedNull>>
    /\ nl_hist' = NLNoHist
    /\ IF nl_g_context # NULL
       THEN /\ refs' = DeleteGlobalRef(refs, nl_g_context)
            /\ nl_g_context' = NULL
            /\ last' = Call("NL", "nativeShutdown", 0, "void", "released", NoResp,
                            nl_g_context, nl_g_vm, 0, 0, FALSE)
       ELSE /\ UNCHANGED <<refs, nl_g_context>>
            /\ last' = Call("NL", "nativeShutdown", 0, "void", "noop", NoResp,
                            nl_g_context, nl_g_vm, 0, 0, FALSE)

\* JNI_OnLoad(vm, reserved)
NL_JNI_OnLoad ==
    \E envOk \in BOOLEAN :
       /\ lib = "NL"
       /\ UNCHANGED <<csVars, thVars, nl_g_context, nl_hist, refs, deletedNull>>
       /\ IF ~envOk
          THEN /\ UNCHANGED nl_g_vm
               /\ last' = Call("NL", "JNI_OnLoad", 0, "JNI_ERR", "noenv", NoResp,
                               nl_g_context, nl_g_vm, 0, 0, FALSE)
          ELSE /\ nl_g_vm' = VM
               /\ last' = Call("NL", "JNI_OnLoad", 0, "JNI_VERSION_1_6", "loaded",
                               NoResp, nl_g_context, nl_g_vm, 0, 0, FALSE)

NL_JNI_OnUnload_KeepsPointer ==
    \E envOk \in BOOLEAN :
       /\ lib = "NL"
       /\ UNCHANGED <<csVars, thVars, nl_g_vm, deletedNull>>
       /\ nl_hist' = IF envOk
                     THEN [NLNoHist EXCEPT !.init = "unloaded"]
                     ELSE [nl_hist EXCEPT !.init = "unloaded", !.ctx = NULL]
       /\ IF ~envOk
          THEN /\ UNCHANGED <<refs, nl_g_context>>
               /\ last' = Call("NL", "JNI_OnUnload", 0, "void", "noenv", NoResp,
                               nl_g_context, nl_g_vm, 0, 0, FALSE)
          ELSE IF nl_g_context # NULL
               THEN /\ refs' = DeleteGlobalRef(refs, nl_g_context)
                    /\ UNCHANGED nl_g_context
                    /\ last' = Call("NL", "JNI_OnUnload", 0, "void", "released",
                                    NoResp, nl_g_context, nl_g_vm, 0, 0, FALSE)
               ELSE /\ UNCHANGED <<refs, nl_g_context>>
                    /\ last' = Call("NL", "JNI_OnUnload", 0, "void", "noop", NoResp,
                                    nl_g_context, nl_g_vm, 0, 0, FALSE)

\* JNI_OnUnload(vm, reserved)
NL_JNI_OnUnload ==
    \E envOk \in BOOLEAN :
       /\ lib = "NL"
       /\ UNCHANGED <<csVars, thVars, nl_g_vm, deletedNull>>
       /\ nl_hist' = IF envOk
                     THEN [NLNoHist EXCEPT !.init = "unloaded"]
                     ELSE [nl_hist EXCEPT !.init = "unloaded", !.ctx = NULL]
       /\ IF ~envOk
          THEN /\ UNCHANGED <<refs, nl_g_context>>
               /\ last' = Call("NL", "JNI_OnUnload", 0, "void", "noenv", NoResp,
                               nl_g_context, nl_g_vm, 0, 0, FALSE)
          ELSE IF nl_g_context # NULL
               THEN /\ refs' = DeleteGlobalRef(refs, nl_g_context)
                    /\ nl_g_context' = NULL
                    /\ last' = Call("NL", "JNI_OnUnload", 0, "void", "released",
                                    NoResp, nl_g_context, nl_g_vm, 0, 0, FALSE)
               ELSE /\ UNCHANGED <<refs, nl_g_context>>
                    /\ last' = Call("NL", "JNI_OnUnload", 0, "void", "noop", NoResp,
                                    nl_g_context, nl_g_vm, 0, 0, FALSE)

----------------------------------------------------------------------------
(* CascadeAIService.cpp: class CascadeAIService::Impl *)

\* Impl() = default: jvm_ = nullptr, context_ = nullptr
NewImpl == [jvm_ |-> NULL, context_ |-> NULL, alive |-> TRUE]

\* The Impl g_cascadeService points to, as a record
TheImpl == impls[g_cascadeService]

\* The context reference the loaded service retains (0 when there is none)
Retained == IF g_cascadeService = NULL THEN NULL ELSE TheImpl.context_

\* Impl::initialize(vm, context): result, the instance and the reference
\* table after the call.  context is the jobject it is handed.
Impl_initialize(impl, table, vm, context, envOk, clsOk, refOk) ==
    LET stored == [impl EXCEPT !.jvm_ = vm]
    IN  IF ~envOk
        THEN [ok |-> FALSE, impl |-> stored, refs |-> table]
        ELSE IF context = NULL
             THEN [ok |-> TRUE, impl |-> stored, refs |-> table]
             ELSE IF ~clsOk
                  THEN [ok |-> FALSE, impl |-> stored, refs |-> table]
                  ELSE IF refOk
                       THEN [ok |-> TRUE,
                             impl |-> [stored EXCEPT !.context_ = Len(table) + 1],
                             refs |-> NewGlobalRef(table, "CS_impl")]
                       ELSE [ok |-> TRUE,
                             impl |-> [stored EXCEPT !.context_ = NULL],
                             refs |-> table]

\* Impl::shutdown(): the instance and the reference table after the call
Impl_shutdown(impl, table, envOk) ==
    IF impl.jvm_ # NULL /\ envOk /\ impl.context_ # NULL
    THEN [impl |-> [impl EXCEPT !.context_ = NULL],
          refs |-> DeleteGlobalRef(table, impl.context_)]
    ELSE [impl |-> impl, refs |-> table]

\* Impl::processRequest(env, request): the constant response
Impl_processRequest(request) == CS_RespSuccess

\* ~CascadeAIService() = default, run by unique_ptr::reset(): frees the
\* instance and releases nothing else
Destroy(heap, p) == [heap EXCEPT ![p].alive = FALSE]

unique_ptr_reset_Keeps(p) == p

\* g_cascadeService.reset(): the pointer the unique_ptr holds afterwards
unique_ptr_reset(p) == NULL

----------------------------------------------------------------------------
(* CascadeAIService.cpp: JNI methods *)

AlreadyInitialized_Never == FALSE

\* nativeInitialize: if (g_cascadeService)
AlreadyInitialized == g_cascadeService # NULL

\* nativeInitialize(env, thiz, context)
CS_nativeInitialize(context) ==
    \E vmOk \in BOOLEAN, ref1Ok \in BOOLEAN, envOk \in BOOLEAN,
       clsOk \in BOOLEAN, ref2Ok \in BOOLEAN, vmOut \in {cs_g_vm, NULL} :
       /\ lib = "CS"
       /\ UNCHANGED <<nlVars, thVars, deletedNull>>
       /\ IF AlreadyInitialized
          THEN /\ vmOk /\ ref1Ok /\ envOk /\ clsOk /\ ref2Ok /\ vmOut = cs_g_vm
               /\ UNCHANGED <<csVars, refs>>
               /\ last' = Call("CS", "nativeInitialize", context, "JNI_TRUE",
                               "already", NoResp, Retained, cs_g_vm, 0, 0, FALSE)
          ELSE IF ~vmOk
          THEN \* GetJavaVM failed: what it stored in g_vm is unspecified
               /\ ref1Ok /\ envOk /\ clsOk /\ ref2Ok
               /\ cs_g_vm' = vmOut
               /\ UNCHANGED <<g_cascadeService, impls, refs>>
               /\ cs_hist' = [state |-> "failed", ctx |-> NULL]
               /\ last' = Call("CS", "nativeInitialize", context, "JNI_FALSE",
                               "vmfail", NoResp, Retained, cs_g_vm, 0, 0, FALSE)
          ELSE LET p == Len(impls) + 1
                   pinned == context # NULL /\ ref1Ok
                   table1 == IF pinned
                             THEN NewGlobalRef(refs, "CS_entry")
                             ELSE refs
                   globalContext == IF pinned THEN Len(refs) + 1 ELSE NULL
                   r == Impl_initialize(NewImpl, table1, VM, globalContext,
                                        envOk, clsOk, ref2Ok)
                   path == IF ~envOk THEN "envfail"
                           ELSE IF ~r.ok THEN "clsfail"
                           ELSE IF context # NULL /\ ~ref1Ok THEN "entryRefNull"
                           ELSE IF context # NULL /\ ~ref2Ok THEN "implRefNull"
                           ELSE "complete"
               IN  /\ vmOut = cs_g_vm
                   /\ context = NULL => ref1Ok
                   /\ (~envOk \/ globalContext = NULL) => (clsOk /\ ref2Ok)
                   /\ ~clsOk => ref2Ok
                   /\ Len(impls) < MaxImpls
                   /\ Len(r.refs) <= MaxRefs
                   /\ cs_g_vm' = VM
                   /\ refs' = r.refs
                   /\ IF r.ok
                      THEN /\ impls' = Append(impls, r.impl)
                           /\ g_cascadeService' = p
                           /\ cs_hist' = [state |-> "initialized", ctx |-> context]
                           /\ last' = Call("CS", "nativeInitialize", context,
                                           "JNI_TRUE", path, NoResp, Retained,
                                           cs_g_vm, 0, 0, FALSE)
                      ELSE /\ impls' = Destroy(Append(impls, r.impl), p)
                           /\ g_cascadeService' = unique_ptr_reset(p)
                           /\ cs_hist' = [state |-> "failed", ctx |-> NULL]
                           /\ last' = Call("CS", "nativeInitialize", context,
                                           "JNI_FALSE", path, NoResp, Retained,
                                           cs_g_vm, 0, 0, FALSE)

\* CascadeAIService::processRequest(env, request)
CascadeAIService_processRequest(request) == Impl_processRequest(request)

CS_nativeProcessRequest_ResetsOnError(request) ==
    \E charsOk \in BOOLEAN, abort \in BOOLEAN :
       /\ lib = "CS"
       /\ UNCHANGED <<nlVars, cs_g_vm, cs_hist, thVars, refs, deletedNull>>
       /\ IF g_cascadeService # NULL /\ request # NULL /\ ~charsOk
          THEN /\ impls' = Destroy(impls, g_cascadeService)
               /\ g_cascadeService' = NULL
          ELSE UNCHANGED <<g_cascadeService, impls>>
       /\ IF g_cascadeService = NULL
          THEN /\ charsOk /\ ~abort
               /\ last' = Call("CS", "nativeProcessRequest", request, "jstring",
                               "notinit", CS_RespNotInit, Retained, cs_g_vm,
                               0, 0, FALSE)
          ELSE IF request = NULL
          THEN \* GetStringUTFChars on a null jstring is undefined: the runtime
               \* either hands back null or aborts the process
               /\ charsOk
               /\ IF abort
                  THEN last' = Call("CS", "nativeProcessRequest", request, "fault",
                                    "nullchars", NoResp, Retained, cs_g_vm,
                                    0, 0, TRUE)
                  ELSE last' = Call("CS", "nativeProcessRequest", request,
                                    "jstring", "nullchars", CS_RespInvalid,
                                    Retained, cs_g_vm, 0, 0, TRUE)
          ELSE IF ~charsOk
          THEN /\ ~abort
               /\ last' = Call("CS", "nativeProcessRequest", request, "jstring",
                               "nochars", CS_RespInvalid, Retained, cs_g_vm,
                               0, 0, FALSE)
          ELSE /\ ~abort
               /\ last' = Call("CS", "nativeProcessRequest", request, "jstring",
                               "processed",
                               CascadeAIService_processRequest(request),
                               Retained, cs_g_vm, 1, 1, FALSE)

\* nativeProcessRequest(env, thiz, request)
CS_nativeProcessRequest(request) ==
    \E charsOk \in BOOLEAN, abort \in BOOLEAN :
       /\ lib = "CS"
       /\ UNCHANGED <<nlVars, csVars, thVars, refs, deletedNull>>
       /\ IF g_cascadeService = NULL
          THEN /\ charsOk /\ ~abort
               /\ last' = Call("CS", "nativeProcessRequest", request, "jstring",
                               "notinit", CS_RespNotInit, Retained, cs_g_vm,
                               0, 0, FALSE)
          ELSE IF request = NULL
          THEN \* GetStringUTFChars on a null jstring is undefined: the runtime
               \* either hands back null or aborts the process
               /\ charsOk
               /\ IF abort
                  THEN last' = Call("CS", "nativeProcessRequest", request, "fault",
                                    "nullchars", NoResp, Retained, cs_g_vm,
                                    0, 0, TRUE)
                  ELSE last' = Call("CS", "nativeProcessRequest", request,
                                    "jstring", "nullchars", CS_RespInvalid,
                                    Retained, cs_g_vm, 0, 0, TRUE)
          ELSE IF ~charsOk
          THEN /\ ~abort
               /\ last' = Call("CS", "nativeProcessRequest", request, "jstring",
                               "nochars", CS_RespInvalid, Retained, cs_g_vm,
                               0, 0, FALSE)
          ELSE /\ ~abort
               /\ last' = Call("CS", "nativeProcessRequest", request, "jstring",
                               "processed",
                               CascadeAIService_processRequest(request),
                               Retained, cs_g_vm, 1, 1, FALSE)

\* nativeShutdown(env, thiz)
CS_nativeShutdown ==
    \E envOk \in BOOLEAN :
       /\ lib = "CS"
       /\ UNCHANGED <<nlVars, thVars, deletedNull>>
       /\ cs_g_vm' = NULL
       /\ cs_hist' = IF cs_hist.state = "initialized"
                     THEN [state |-> "shutdown", ctx |-> NULL]
                     ELSE cs_hist
       /\ IF g_cascadeService # NULL
          THEN LET r == Impl_shutdown(TheImpl, refs, envOk)
               IN  /\ (TheImpl.jvm_ = NULL \/ TheImpl.context_ = NULL) => envOk
                   /\ refs' = r.refs
                   /\ impls' = Destroy([impls EXCEPT ![g_cascadeService] = r.impl],
                                       g_cascadeService)
                   /\ g_cascadeService' = unique_ptr_reset(g_cascadeService)
                   /\ last' = Call("CS", "nativeShutdown", 0, "void",
                                   IF envOk THEN "released" ELSE "noenv",
                                   NoResp, Retained, cs_g_vm, 0, 0, FALSE)
          ELSE /\ envOk
               /\ UNCHANGED <<g_cascadeService, impls, refs>>
               /\ last' = Call("CS", "nativeShutdown", 0, "void", "noop", NoResp,
                               Retained, cs_g_vm, 0, 0, FALSE)

----------------------------------------------------------------------------
(* oracle_integration_jni.cpp *)

OD_Version_Logged == "Oracle Drive Integration Native - Genesis Protocol v3.0"

\* std::string version
OD_Version == "Genesis Oracle Drive Integration v1.0.0"

\* OracleDriveNative.getVersion(env, this)
OD_getVersion ==
    /\ lib = "OD"
    /\ UNCHANGED <<nlVars, csVars, thVars, refs, deletedNull>>
    /\ last' = Call("OD", "getVersion", 0, "jstring", "version", OD_Version,
                    0, 0, 0, 0, FALSE)

\* OracleDriveNative.initialize(env, this)
OD_initialize ==
    /\ lib = "OD"
    /\ od_hist' = "initialized"
    /\ UNCHANGED <<nlVars, csVars, lib, pc, loc, refs, deletedNull>>
    /\ last' = Call("OD", "initialize", 0, "JNI_TRUE", "placeholder", NoResp,
                    0, 0, 0, 0, FALSE)

\* OracleDriveNative.shutdown(env, this)
OD_shutdown ==
    /\ lib = "OD"
    /\ od_hist' = "shutdown"
    /\ UNCHANGED <<nlVars, csVars, lib, pc, loc, refs, deletedNull>>
    /\ last' = Call("OD", "shutdown", 0, "void", "placeholder", NoResp,
                    0, 0, 0, 0, FALSE)

----------------------------------------------------------------------------
Init ==
    /\ lib \in Libs
    /\ nl_g_vm = NULL
    /\ nl_g_context = NULL
    /\ cs_g_vm = NULL
    /\ g_cascadeService = NULL
    /\ impls = <<>>
    /\ refs = <<>>
    /\ deletedNull = FALSE
    /\ last = NoCall
    /\ nl_hist = NLNoHist
    /\ cs_hist = [state |-> "never", ctx |-> NULL]
    /\ od_hist = "never"
    /\ pc = [t \in Threads |-> "idle"]
    /\ loc = [t \in Threads |-> NoLoc]

Next ==
    \/ \E context \in Contexts : NL_nativeInitialize(context)
    \/ \E request \in Requests : NL_nativeProcessRequest(request)
    \/ NL_nativeShutdown
    \/ NL_JNI_OnLoad
    \/ NL_JNI_OnUnload
    \/ \E context \in Contexts : CS_nativeInitialize(context)
    \/ \E request \in Requests : CS_nativeProcessRequest(request)
    \/ CS_nativeShutdown
    \/ OD_getVersion
    \/ OD_initialize
    \/ OD_shutdown

Spec == Init /\ [][Next]_vars

----------------------------------------------------------------------------
(* Properties of the sequential lifecycle *)

IsCall(c, impl, op) == c.impl = impl /\ c.op = op

CSSites == {"CS_entry", "CS_impl"}

\* C1: after nativeInitialize succeeded with a non-null context, when the
\* following nativeShutdown returns the retained context reference is null
\* and no global reference created by CascadeAIService.cpp is still live.
C1_ShutdownReleasesEveryRef ==
    [][(/\ cs_hist.state = "initialized"
        /\ cs_hist.ctx # NULL
        /\ Retained # NULL
        /\ IsCall(last', "CS", "nativeShutdown"))
       => (/\ g_cascadeService' = NULL
           /\ LiveBy(refs', CSSites) = {})]_vars

\* C4: a second completed nativeInitialize of native-lib.cpp with a non-null
\* context and no nativeShutdown in between leaves g_vm, g_context and the
\* set of live global references as the first call left them.
C4_InitializeTwiceSameState ==
    [][(/\ nl_hist.init = "complete"
        /\ nl_hist.ctx # NULL
        /\ IsCall(last', "NL", "nativeInitialize")
        /\ last'.arg # NULL
        /\ last'.path = "complete")
       => (/\ nl_g_vm' = nl_g_vm
           /\ nl_g_context' = nl_g_context
           /\ Live(refs') = Live(refs))]_vars

\* C5: whenever nativeInitialize of CascadeAIService.cpp returns JNI_FALSE,
\* g_cascadeService is null, g_vm is as before the call and every global
\* reference acquired during the call has been deleted.
C5_FailedInitializeLeavesNoPartialState ==
    [][(/\ IsCall(last', "CS", "nativeInitialize")
        /\ last'.ret = "JNI_FALSE")
       => (/\ g_cascadeService' = NULL
           /\ cs_g_vm' = cs_g_vm
           /\ \A r \in (Len(refs) + 1)..Len(refs') : refs'[r].dels > 0)]_vars

\* C6: when NewGlobalRef returns null for a non-null context (in the JNI
\* entry point or in Impl::initialize), nativeInitialize returns JNI_FALSE
\* and the service stays uninitialized; success is never reported with a
\* null retained context for a non-null supplied context.
C6_PinFailureFailsInitialize ==
    (/\ IsCall(last, "CS", "nativeInitialize")
     /\ last.arg # NULL
     /\ last.path # "already")
    => (/\ last.path \in {"entryRefNull", "implRefNull"}
           => (last.ret = "JNI_FALSE" /\ g_cascadeService = NULL)
        /\ last.ret = "JNI_TRUE" => Retained # NULL)

\* C7: whenever the CascadeAIService.cpp service is not initialized (never
\* initialized, last nativeInitialize failed, or shut down since),
\* nativeProcessRequest returns {"error":"Service not initialized"} for
\* every payload.
C7_NotInitializedGivesError ==
    (/\ IsCall(last, "CS", "nativeProcessRequest")
     /\ cs_hist.state # "initialized")
    => (last.ret = "jstring" /\ last.resp = CS_RespNotInit)

\* C7 witness: initialize, then shutdown, then processRequest("x") answered
\* with the error
C7_Witness ==
    /\ IsCall(last, "CS", "nativeProcessRequest")
    /\ last.arg # NULL
    /\ cs_hist.state = "shutdown"
    /\ last.resp = CS_RespNotInit

\* C8: nativeProcessRequest of native-lib.cpp with a non-null decodable
\* request, before any nativeInitialize or after nativeShutdown with no later
\* nativeInitialize, returns an error-shaped response.
C8_UninitializedRequestGivesError ==
    (/\ IsCall(last, "NL", "nativeProcessRequest")
     /\ last.arg # NULL
     /\ last.path = "processed"
     /\ nl_hist.init = "none")
    => ErrorShaped(last.resp)

\* C9: in both libraries nativeProcessRequest with a null request returns an
\* error-shaped response in every lifecycle state, without handing the null
\* payload to GetStringUTFChars, and leaves the runtime handle, the retained
\* context reference and the service instance unchanged.
C9_NullRequestGivesError ==
    [][(last'.op = "nativeProcessRequest" /\ last'.arg = NULL)
       => (/\ last'.ret = "jstring"
           /\ ErrorShaped(last'.resp)
           /\ ~last'.nullChars
           /\ UNCHANGED <<nl_g_vm, nl_g_context, cs_g_vm, g_cascadeService,
                          impls>>)]_vars

\* C10 (as claimed): whenever JNI_OnUnload is invoked while g_context is
\* non-null, g_context is null and its reference deleted when it returns,
\* also when the hook cannot obtain a JNIEnv.
C10_UnloadAlwaysReleases ==
    (/\ IsCall(last, "NL", "JNI_OnUnload")
     /\ last.held # NULL)
    => (nl_g_context = NULL /\ refs[last.held].dels = 1)

\* C10 (amended): whenever JNI_OnUnload is invoked while g_context is
\* non-null and the hook obtains a JNIEnv, g_context is null and its
\* reference has been deleted exactly once when it returns; when it cannot
\* obtain a JNIEnv, g_context and the reference are left as they were.
C10_UnloadReleasesWhenEnvAvailable ==
    (/\ IsCall(last, "NL", "JNI_OnUnload")
     /\ last.held # NULL)
    => IF last.path = "noenv"
       THEN nl_g_context = last.held /\ refs[last.held].dels = 0
       ELSE nl_g_context = NULL /\ refs[last.held].dels = 1

\* C10 witness: the unload hook released a context that was still retained
C10_Witness ==
    /\ IsCall(last, "NL", "JNI_OnUnload")
    /\ last.held # NULL
    /\ last.path = "released"
    /\ nl_hist.init = "unloaded"
    /\ nl_g_context = NULL

----------------------------------------------------------------------------
(* native-lib.cpp called from several threads: one step per statement.     *)
(* Nothing in the file synchronises the accesses to g_vm and g_context.    *)

seqVars == <<last, nl_hist, cs_hist, od_hist>>

Goto(t, label) == pc' = [pc EXCEPT ![t] = label]

\* The native method returns to the JVM
Return(t, ret) ==
    /\ pc' = [pc EXCEPT ![t] = "done"]
    /\ loc' = [loc EXCEPT ![t].ret = ret]

NLHandlers == {"nativeInitialize", "nativeShutdown", "JNI_OnUnload"}

NLEntry(h) ==
    CASE h = "nativeInitialize" -> "init_GetJavaVM"
      [] h = "nativeShutdown" -> "shut_check"
      [] h = "JNI_OnUnload" -> "unl_GetEnv"

\* The JVM calls one of the entry points on thread t
NLc_Call(t) ==
    \E h \in NLHandlers, context \in Contexts :
       /\ pc[t] = "idle"
       /\ h # "nativeInitialize" => context = NULL
       /\ loc' = [loc EXCEPT ![t] = [NoLoc EXCEPT !.h = h, !.arg = context]]
       /\ Goto(t, NLEntry(h))
       /\ UNCHANGED <<lib, nl_g_vm, nl_g_context, csVars, refs, deletedNull,
                      seqVars>>

\* nativeInitialize: if (env->GetJavaVM(&g_vm) != JNI_OK) return;
NLc_init_GetJavaVM(t) ==
    \E vmOk \in BOOLEAN, vmOut \in {nl_g_vm, NULL} :
       /\ pc[t] = "init_GetJavaVM"
       /\ UNCHANGED <<lib, nl_g_context, csVars, refs, deletedNull, seqVars>>
       /\ IF vmOk
          THEN /\ vmOut = nl_g_vm
               /\ nl_g_vm' = VM
               /\ IF loc[t].arg # NULL
                  THEN Goto(t, "init_NewGlobalRef") /\ UNCHANGED loc
                  ELSE Return(t, "void")
          ELSE /\ nl_g_vm' = vmOut
               /\ Return(t, "void")

\* nativeInitialize: the call env->NewGlobalRef(context)
NLc_init_NewGlobalRef(t) ==
    \E refOk \in BOOLEAN :
       /\ pc[t] = "init_NewGlobalRef"
       /\ UNCHANGED <<lib, nl_g_vm, nl_g_context, csVars, deletedNull, seqVars>>
       /\ Goto(t, "init_store")
       /\ IF refOk
          THEN /\ Len(refs) < MaxRefs
               /\ refs' = NewGlobalRef(refs, "NL")
               /\ loc' = [loc EXCEPT ![t].tmp = Len(refs) + 1]
          ELSE /\ UNCHANGED refs
               /\ loc' = [loc EXCEPT ![t].tmp = NULL]

\* nativeInitialize: g_context = <result>; the null test only logs
NLc_init_store(t) ==
    /\ pc[t] = "init_store"
    /\ nl_g_context' = loc[t].tmp
    /\ Return(t, "void")
    /\ UNCHANGED <<lib, nl_g_vm, csVars, refs, deletedNull, seqVars>>

\* nativeShutdown: if (g_context != nullptr)
NLc_shut_check(t) ==
    /\ pc[t] = "shut_check"
    /\ UNCHANGED <<lib, nl_g_vm, nl_g_context, csVars, refs, deletedNull,
                   seqVars>>
    /\ IF nl_g_context # NULL
       THEN /\ loc' = [loc EXCEPT ![t].seen = nl_g_context]
            /\ Goto(t, "shut_delete")
       ELSE Return(t, "void")

\* nativeShutdown: env->DeleteGlobalRef(g_context); with the unsynchronised
\* access the build may pass the value the test read or read g_context again
NLc_shut_delete(t) ==
    \E r \in {loc[t].seen, nl_g_context} :
       /\ pc[t] = "shut_delete"
       /\ UNCHANGED <<lib, nl_g_vm, nl_g_context, csVars, loc, seqVars>>
       /\ Goto(t, "shut_clear")
       /\ IF r = NULL
          THEN deletedNull' = TRUE /\ UNCHANGED refs
          ELSE refs' = DeleteGlobalRef(refs, r) /\ UNCHANGED deletedNull

\* nativeShutdown: g_context = nullptr;
NLc_shut_clear(t) ==
    /\ pc[t] = "shut_clear"
    /\ nl_g_context' = NULL
    /\ Return(t, "void")
    /\ UNCHANGED <<lib, nl_g_vm, csVars, refs, deletedNull, seqVars>>

\* JNI_OnUnload: if (vm->GetEnv(...) != JNI_OK) return;
NLc_unl_GetEnv(t) ==
    \E envOk \in BOOLEAN :
       /\ pc[t] = "unl_GetEnv"
       /\ UNCHANGED <<lib, nl_g_vm, nl_g_context, csVars, refs, deletedNull,
                      seqVars>>
       /\ IF envOk
          THEN Goto(t, "unl_check") /\ UNCHANGED loc
          ELSE Return(t, "void")

\* JNI_OnUnload: if (g_context != nullptr)
NLc_unl_check(t) ==
    /\ pc[t] = "unl_check"
    /\ UNCHANGED <<lib, nl_g_vm, nl_g_context, csVars, refs, deletedNull,
                   seqVars>>
    /\ IF nl_g_context # NULL
       THEN /\ loc' = [loc EXCEPT ![t].seen = nl_g_context]
            /\ Goto(t, "unl_delete")
       ELSE Return(t, "void")

\* JNI_OnUnload: env->DeleteGlobalRef(g_context); with the unsynchronised
\* access the build may pass the value the test read or read g_context again
NLc_unl_delete(t) ==
    \E r \in {loc[t].seen, nl_g_context} :
       /\ pc[t] = "unl_delete"
       /\ UNCHANGED <<lib, nl_g_vm, nl_g_context, csVars, loc, seqVars>>
       /\ Goto(t, "unl_clear")
       /\ IF r = NULL
          THEN deletedNull' = TRUE /\ UNCHANGED refs
          ELSE refs' = DeleteGlobalRef(refs, r) /\ UNCHANGED deletedNull

\* JNI_OnUnload: g_context = nullptr;
NLc_unl_clear(t) ==
    /\ pc[t] = "unl_clear"
    /\ nl_g_context' = NULL
    /\ Return(t, "void")
    /\ UNCHANGED <<lib, nl_g_vm, csVars, refs, deletedNull, seqVars>>

\* The threads start in a state the sequential lifecycle reaches: nothing
\* initialized yet, or nativeInitialize(context) completed
InitConcNL ==
    /\ lib = "NL"
    /\ cs_g_vm = NULL
    /\ g_cascadeService = NULL
    /\ impls = <<>>
    /\ deletedNull = FALSE
    /\ last = NoCall
    /\ cs_hist = [state |-> "never", ctx |-> NULL]
    /\ od_hist = "never"
    /\ pc = [t \in Threads |-> "idle"]
    /\ loc = [t \in Threads |-> NoLoc]
    /\ \/ /\ nl_g_vm = NULL
          /\ nl_g_context = NULL
          /\ refs = <<>>
          /\ nl_hist = NLNoHist
       \/ \E context \in Contexts \ {NULL} :
             /\ nl_g_vm = VM
             /\ nl_g_context = 1
             /\ refs = <<NewRef("NL")>>
             /\ nl_hist = [init |-> "complete", ctx |-> context,
                           inited |-> TRUE, ictx |-> context]

NextConcNL ==
    \E t \in Threads :
       \/ NLc_Call(t)
       \/ NLc_init_GetJavaVM(t)
       \/ NLc_init_NewGlobalRef(t)
       \/ NLc_init_store(t)
       \/ NLc_shut_check(t)
       \/ NLc_shut_delete(t)
       \/ NLc_shut_clear(t)
       \/ NLc_unl_GetEnv(t)
       \/ NLc_unl_check(t)
       \/ NLc_unl_delete(t)
       \/ NLc_unl_clear(t)

SpecConcNL == InitConcNL /\ [][NextConcNL]_vars

Quiescent == \A t \in Threads : pc[t] \in {"idle", "done"}

\* No two threads are running (or have run) the same entry point
DistinctHandlers ==
    \A t, u \in Threads :
       (t # u /\ loc[t].h # "none") => loc[t].h # loc[u].h

\* C2: with nativeShutdown, JNI_OnUnload and nativeInitialize running on
\* different threads, no interleaving calls DeleteGlobalRef twice on the same
\* global reference, and none leaves g_context holding a deleted reference.
C2_TransitionsAtomic ==
    DistinctHandlers
    => (/\ \A r \in 1..Len(refs) : refs[r].dels <= 1
        /\ Quiescent => (nl_g_context = NULL \/ refs[nl_g_context].dels = 0))

----------------------------------------------------------------------------
(* CascadeAIService.cpp: nativeInitialize called from several threads, one  *)
(* step per statement.  Nothing synchronises g_cascadeService and g_vm.     *)

nlAll == <<nl_g_vm, nl_g_context>>

\* The JVM calls nativeInitialize(context) on thread t
CSc_Call(t) ==
    \E context \in Contexts :
       /\ pc[t] = "idle"
       /\ Cardinality({u \in Threads : loc[u].h # "none"}) < MaxCallers
       /\ loc' = [loc EXCEPT ![t] = [NoLoc EXCEPT !.h = "nativeInitialize",
                                                   !.arg = context]]
       /\ Goto(t, "ci_check")
       /\ UNCHANGED <<lib, nlAll, csVars, refs, deletedNull, seqVars>>

\* if (g_cascadeService) return JNI_TRUE;
CSc_check(t) ==
    /\ pc[t] = "ci_check"
    /\ UNCHANGED <<lib, nlAll, csVars, refs, deletedNull, seqVars>>
    /\ IF g_cascadeService # NULL
       THEN Return(t, "JNI_TRUE")
       ELSE Goto(t, "ci_GetJavaVM") /\ UNCHANGED loc

\* if (env->GetJavaVM(&g_vm) != JNI_OK) return JNI_FALSE;
CSc_GetJavaVM(t) ==
    \E vmOk \in BOOLEAN, vmOut \in {cs_g_vm, NULL} :
       /\ pc[t] = "ci_GetJavaVM"
       /\ UNCHANGED <<lib, nlAll, g_cascadeService, impls, refs, deletedNull,
                      seqVars>>
       /\ IF vmOk
          THEN /\ vmOut = cs_g_vm
               /\ cs_g_vm' = VM
               /\ Goto(t, "ci_make") /\ UNCHANGED loc
          ELSE /\ cs_g_vm' = vmOut
               /\ Return(t, "JNI_FALSE")

\* std::make_unique<CascadeAIService>()
CSc_make(t) ==
    /\ pc[t] = "ci_make"
    /\ impls' = Append(impls, NewImpl)
    /\ loc' = [loc EXCEPT ![t].tmp = Len(impls) + 1]
    /\ Goto(t, "ci_assign")
    /\ UNCHANGED <<lib, nlAll, cs_g_vm, g_cascadeService, refs, deletedNull,
                   seqVars>>

\* g_cascadeService = <the new instance>: the instance held before is freed
CSc_assign(t) ==
    /\ pc[t] = "ci_assign"
    /\ g_cascadeService' = loc[t].tmp
    /\ impls' = IF g_cascadeService # NULL
                THEN Destroy(impls, g_cascadeService)
                ELSE impls
    /\ Goto(t, "ci_test") /\ UNCHANGED loc
    /\ UNCHANGED <<lib, nlAll, cs_g_vm, refs, deletedNull, seqVars>>

\* if (!g_cascadeService) return JNI_FALSE;
CSc_test(t) ==
    /\ pc[t] = "ci_test"
    /\ UNCHANGED <<lib, nlAll, csVars, refs, deletedNull, seqVars>>
    /\ IF g_cascadeService = NULL
       THEN Return(t, "JNI_FALSE")
       ELSE Goto(t, "ci_NewGlobalRef") /\ UNCHANGED loc

\* jobject globalContext = env->NewGlobalRef(context);
CSc_NewGlobalRef(t) ==
    \E refOk \in BOOLEAN :
       /\ pc[t] = "ci_NewGlobalRef"
       /\ UNCHANGED <<lib, nlAll, csVars, deletedNull, seqVars>>
       /\ Goto(t, "ci_initialize")
       /\ IF loc[t].arg # NULL /\ refOk
          THEN /\ Len(refs) < MaxRefs
               /\ refs' = NewGlobalRef(refs, "CS_entry")
               /\ loc' = [loc EXCEPT ![t].tmp = Len(refs) + 1]
          ELSE /\ loc[t].arg = NULL => refOk
               /\ UNCHANGED refs
               /\ loc' = [loc EXCEPT ![t].tmp = NULL]

\* if (!g_cascadeService->initialize(g_vm, globalContext)): through a null
\* g_cascadeService or a null g_vm the call is undefined
CSc_initialize(t) ==
    \E envOk \in BOOLEAN, clsOk \in BOOLEAN, refOk \in BOOLEAN :
       /\ pc[t] = "ci_initialize"
       /\ UNCHANGED <<lib, nlAll, cs_g_vm, g_cascadeService, deletedNull,
                      seqVars>>
       /\ IF g_cascadeService = NULL \/ cs_g_vm = NULL
          THEN /\ envOk /\ clsOk /\ refOk
               /\ UNCHANGED <<impls, refs>>
               /\ pc' = [pc EXCEPT ![t] = "done"]
               /\ loc' = [loc EXCEPT ![t].ret = "fault", ![t].ub = TRUE]
          ELSE LET r == Impl_initialize(TheImpl, refs, cs_g_vm, loc[t].tmp,
                                        envOk, clsOk, refOk)
               IN  /\ (~envOk \/ loc[t].tmp = NULL) => (clsOk /\ refOk)
                   /\ ~clsOk => refOk
                   /\ Len(r.refs) <= MaxRefs
                   /\ impls' = [impls EXCEPT ![g_cascadeService] = r.impl]
                   /\ refs' = r.refs
                   /\ IF r.ok
                      THEN Return(t, "JNI_TRUE")
                      ELSE Goto(t, "ci_reset") /\ UNCHANGED loc

\* g_cascadeService.reset(); return JNI_FALSE;
CSc_reset(t) ==
    /\ pc[t] = "ci_reset"
    /\ impls' = IF g_cascadeService # NULL
                THEN Destroy(impls, g_cascadeService)
                ELSE impls
    /\ g_cascadeService' = unique_ptr_reset(g_cascadeService)
    /\ Return(t, "JNI_FALSE")
    /\ UNCHANGED <<lib, nlAll, cs_g_vm, refs, deletedNull, seqVars>>

\* The threads start in the Uninitialized state
InitConcCS ==
    /\ Init
    /\ lib = "CS"

NextConcCS ==
    \E t \in Threads :
       \/ CSc_Call(t)
       \/ CSc_check(t)
       \/ CSc_GetJavaVM(t)
       \/ CSc_make(t)
       \/ CSc_assign(t)
       \/ CSc_test(t)
       \/ CSc_NewGlobalRef(t)
       \/ CSc_initialize(t)
       \/ CSc_reset(t)

SpecConcCS == InitConcCS /\ [][NextConcCS]_vars

Callers == {t \in Threads : loc[t].h = "nativeInitialize"}
RefsBy(site) == {r \in 1..Len(refs) : refs[r].by = site}

\* C3: when threads call nativeInitialize concurrently from the
\* Uninitialized state and all calls report success, exactly one
\* CascadeAIService instance has been created and g_cascadeService holds it,
\* and at most one set of context global references was acquired.
C3_InitializeTakesEffectOnce ==
    (/\ Cardinality(Callers) >= 2
     /\ \A t \in Callers : pc[t] = "done" /\ loc[t].ret = "JNI_TRUE")
    => (/\ Len(impls) = 1
        /\ g_cascadeService = 1
        /\ Cardinality(RefsBy("CS_entry")) <= 1
        /\ Cardinality(RefsBy("CS_impl")) <= 1)

----------------------------------------------------------------------------
(* Properties of the sequential lifecycle, continued *)

\* The state of the libraries (everything but the history variables)
prog == <<nl_g_vm, nl_g_context, cs_g_vm, g_cascadeService, impls, refs,
          deletedNull>>

\* The loaded library is in the Uninitialized state of the lifecycle
Uninitialized ==
    \/ lib = "NL" /\ ~nl_hist.inited
    \/ lib = "CS" /\ cs_hist.state # "initialized"

\* C11: in both libraries a nativeShutdown called in the Uninitialized state
\* (a second or later nativeShutdown included) changes no state and makes no
\* DeleteGlobalRef call.
C11_ShutdownIdempotent ==
    [][(Uninitialized /\ last'.op = "nativeShutdown")
       => UNCHANGED prog]_vars

\* C12: nativeInitialize of CascadeAIService.cpp called while
\* g_cascadeService is non-null returns JNI_TRUE and leaves g_cascadeService,
\* g_vm, the retained context reference and the global references as they
\* were, whatever context is passed.
C12_InitializeFastPath ==
    [][(g_cascadeService # NULL /\ IsCall(last', "CS", "nativeInitialize"))
       => (last'.ret = "JNI_TRUE" /\ UNCHANGED prog)]_vars

\* C12 witness: an initialized service was handed another context than the
\* one it was initialized with
C12_Witness ==
    /\ IsCall(last, "CS", "nativeInitialize")
    /\ last.path = "already"
    /\ cs_hist.state = "initialized"
    /\ last.arg # cs_hist.ctx
    /\ last.arg # NULL

\* C13: over every sequential call sequence of native-lib.cpp,
\* DeleteGlobalRef is called at most once on any global reference and never
\* on a null reference.
C13_NoDoubleRelease ==
    lib = "NL"
    => (/\ \A r \in 1..Len(refs) : refs[r].dels <= 1
        /\ ~deletedNull)

\* C13 witness: JNI_OnUnload ran after nativeShutdown had released the
\* context, and nativeShutdown ran again after that
C13_Witness ==
    /\ IsCall(last, "NL", "nativeShutdown")
    /\ last.path = "noop"
    /\ last.vmBefore = VM
    /\ \E r \in 1..Len(refs) : refs[r].dels = 1

\* C14: in every reachable state the retained context reference (context_ of
\* the loaded service in CascadeAIService.cpp, g_context in native-lib.cpp)
\* is non-null only if the library is initialized and the nativeInitialize
\* that initialized it was given a non-null context.
C14_RetainedOnlyWhenInitializedWithContext ==
    /\ (lib = "CS" /\ Retained # NULL)
       => (cs_hist.state = "initialized" /\ cs_hist.ctx # NULL)
    /\ (lib = "NL" /\ nl_g_context # NULL)
       => (nl_hist.inited /\ nl_hist.ictx # NULL)

\* C15 (as claimed): when nativeShutdown of native-lib.cpp, called in the
\* Initialized state, returns, g_context is null and g_vm is null.
C15_ShutdownClearsContextAndVm ==
    [][(nl_hist.inited /\ IsCall(last', "NL", "nativeShutdown"))
       => (nl_g_context' = NULL /\ nl_g_vm' = NULL)]_vars

\* C15 (amended): when nativeShutdown of native-lib.cpp, called in the
\* Initialized state, returns, g_context is null and the reference it held
\* has been deleted; g_vm is left as it was.
C15_ShutdownClearsContextKeepsVm ==
    [][(nl_hist.inited /\ IsCall(last', "NL", "nativeShutdown"))
       => (/\ nl_g_context' = NULL
           /\ nl_g_context # NULL => refs'[nl_g_context].dels = 1
           /\ nl_g_vm' = nl_g_vm)]_vars

\* C15 witness: nativeShutdown released the retained context and g_vm still
\* holds the JavaVM
C15_Witness ==
    /\ IsCall(last, "NL", "nativeShutdown")
    /\ last.path = "released"
    /\ last.held # NULL
    /\ nl_g_context = NULL
    /\ nl_g_vm = VM

\* C16: in both libraries nativeProcessRequest releases every UTF-8 buffer it
\* obtained with GetStringUTFChars exactly once before it returns, on every
\* path, and releases no buffer it did not obtain.
C16_UtfCharsReleased ==
    last.op = "nativeProcessRequest"
    => (/\ last.utfRel = last.utfGot
        /\ last.utfGot = (IF last.path = "processed" THEN 1 ELSE 0))

\* C16 witness: a request was decoded and processed, its buffer released
C16_Witness ==
    /\ IsCall(last, "NL", "nativeProcessRequest")
    /\ last.path = "processed"
    /\ last.utfGot = 1
    /\ last.utfRel = 1

\* C17: getVersion returns the literal "Genesis Oracle Drive Integration
\* v1.0.0" on every call (before initialize, between initialize and
\* shutdown, after shutdown) and changes no state.
C17_GetVersionConstant ==
    [][IsCall(last', "OD", "getVersion")
       => (/\ last'.ret = "jstring"
           /\ last'.resp = "Genesis Oracle Drive Integration v1.0.0"
           /\ UNCHANGED <<od_hist, prog>>)]_vars

\* C17 witness: getVersion answered after initialize and shutdown
C17_Witness ==
    /\ IsCall(last, "OD", "getVersion")
    /\ od_hist = "shutdown"
    /\ last.resp = "Genesis Oracle Drive Integration v1.0.0"

\* C18: in CascadeAIService.cpp, a nativeInitialize that follows a successful
\* nativeInitialize and a nativeShutdown does not take the already-initialized
\* path; when it completes it has re-acquired the JavaVM, holds a live
\* instance and (for a non-null context) retains a context reference created
\* by this call; a nativeProcessRequest with a decodable payload returns the
\* constant success response.
C18_LifecycleRepeats ==
    [][/\ (cs_hist.state = "shutdown" /\ IsCall(last', "CS", "nativeInitialize"))
          => (/\ last'.path # "already"
              /\ last'.path = "complete"
                 => (/\ cs_g_vm = NULL /\ cs_g_vm' = VM
                     /\ g_cascadeService' # NULL
                     /\ impls'[g_cascadeService'].alive
                     /\ last'.arg # NULL
                        => (/\ impls'[g_cascadeService'].context_ > Len(refs)
                            /\ refs'[impls'[g_cascadeService'].context_].dels = 0)))
       /\ (IsCall(last', "CS", "nativeProcessRequest") /\ last'.path = "processed")
          => last'.resp = CS_RespSuccess]_vars

\* C18 witness: a request processed in the second cycle, the context
\* reference of the first cycle released and the one of the second retained
C18_Witness ==
    /\ IsCall(last, "CS", "nativeProcessRequest")
    /\ last.path = "processed"
    /\ last.resp = CS_RespSuccess
    /\ cs_hist.state = "initialized"
    /\ Retained # NULL
    /\ refs[Retained].dels = 0
    /\ \E r \in 1..Len(refs) : refs[r].by = "CS_impl" /\ refs[r].dels = 1

\* C19: in both libraries nativeProcessRequest, for every payload and in
\* every state, leaves g_vm, the retained context reference, the service
\* instance and the global references unchanged.
C19_ProcessRequestReadOnly ==
    [][last'.op = "nativeProcessRequest"
       => UNCHANGED <<prog, nl_hist, cs_hist>>]_vars

\* C19 witness: an undecodable request was answered while the service
\* retained a context reference
C19_Witness ==
    /\ IsCall(last, "CS", "nativeProcessRequest")
    /\ last.path = "nochars"
    /\ Retained # NULL
    /\ refs[Retained].dels = 0
====
